---- MODULE Spec2Model ----
(***************************************************************************)
(* Model of src/src/matchengine/asset.rs of dingir-exchange: the asset     *)
(* registry (AssetManager), the balance ledger (BalanceManager) and the    *)
(* idempotent update gate (BalanceUpdateController).                       *)
(*                                                                         *)
(* Amounts (rust_decimal::Decimal) are integers counting the finest unit   *)
(* any registered asset stores, 10^-MaxPrec.  An asset of store precision  *)
(* p keeps multiples of 10^(MaxPrec - p) of that unit.                     *)
(***************************************************************************)
EXTENDS Integers, Sequences, FiniteSets, TLC

VARIABLES
    balances,          \* BalanceManager.balances : BalanceMapKey -> Decimal
    cache,             \* BalanceUpdateController.cache : live markers, oldest first
    history,           \* what the last operation handed to history_writer
    messages,          \* what the last operation handed to message_manager
    debug_assertions,  \* build profile: are debug_assert! checks compiled in
    returned           \* how the last operation ended: "ok", "true", "false"
                       \* (what update_user_balance returned) or "panic"

vars == <<balances, cache, history, messages, debug_assertions, returned>>

----------------------------------------------------------------------------
(* Bounds and input sets *)

\* Largest amount, in half units, a ledger slot is driven to (either sign)
\* through the gate.
MaxBalance == 4

\* Largest amount, in half units, a ledger slot is driven to (either sign)
\* by the ledger's own operations.
MaxLedger == 2

Users == {1, 2}

\* The accounts the ledger is called for: two holders of one asset, one
\* holder of a second asset, and an asset that is not registered.
Accounts == {<<1, "BTC">>, <<2, "BTC">>, <<1, "ETH">>, <<1, "XYZ">>}

AVAILABLE == "AVAILABLE"
FREEZE == "FREEZE"
BalanceType == {AVAILABLE, FREEZE}

\* The registry built by AssetManager::new from the asset configuration.
assets == [a \in {"BTC", "ETH"} |->
             IF a = "BTC" THEN [prec_save |-> 0, prec_show |-> 0]
                          ELSE [prec_save |-> 1, prec_show |-> 0]]

\* Asset names callers pass: the registered ones and one that is not.
AssetNames == DOMAIN assets \cup {"XYZ"}

MaxPrec == CHOOSE p \in {assets[a].prec_save : a \in DOMAIN assets} :
               \A a \in DOMAIN assets : assets[a].prec_save <= p

RECURSIVE Pow10(_)
Pow10(n) == IF n = 0 THEN 1 ELSE 10 * Pow10(n - 1)

\* One whole unit, in the finest unit.
Unit == Pow10(MaxPrec)

\* Amount arguments of the ledger calls: zero, a tie below one unit, one
\* unit, a tie above one unit.  Callers pass no negative amount.
Amounts == {0, Unit \div 2, Unit, Unit + Unit \div 2}

\* Signed changes handed to the gate: a debit, nothing, a credit with more
\* digits than the coarsest asset stores.
Changes == {-Unit, 0, Unit + Unit \div 2}

\* Dedup keys the gate is called with: one business event, the same event
\* under another business_id, and an event of another asset.
GateKeys ==
    { [user_id |-> 1, asset |-> "BTC", business |-> "deposit", business_id |-> 1001],
      [user_id |-> 1, asset |-> "BTC", business |-> "deposit", business_id |-> 1002],
      [user_id |-> 1, asset |-> "ETH", business |-> "deposit", business_id |-> 1001] }

\* A dedup key whose asset is not in the registry.
UnregisteredKeys ==
    { [user_id |-> 1, asset |-> "XYZ", business |-> "deposit", business_id |-> 1001] }

\* detail payloads (JSON objects): an empty one and one with a stale "id".
Details == { [f \in {} |-> 0], [f \in {"id"} |-> 0] }

----------------------------------------------------------------------------
(* rust_decimal *)

abs(x) == IF x < 0 THEN -x ELSE x

\* Decimal::round_dp(p): to p fractional digits, ties to the even neighbour.
round_dp(x, p) ==
    LET u == Pow10(MaxPrec - p)
        q == x \div u
        r == x % u
    IN  IF 2 * r < u THEN q * u
        ELSE IF 2 * r > u THEN (q + 1) * u
        ELSE IF q % 2 = 0 THEN q * u ELSE (q + 1) * u

is_sign_positive(x) == x >= 0

is_zero(x) == x = 0

Digit(d) == <<"0", "1", "2", "3", "4", "5", "6", "7", "8", "9">>[d + 1]

RECURSIVE NatToText(_)
NatToText(n) ==
    IF n < 10 THEN <<Digit(n)>> ELSE NatToText(n \div 10) \o <<Digit(n % 10)>>

\* n digits of f, leading zeros kept.
RECURSIVE Padded(_, _)
Padded(f, n) ==
    IF n = 0 THEN <<>> ELSE Padded(f \div 10, n - 1) \o <<Digit(f % 10)>>

\* The fraction f of n digits without its trailing zeros.
RECURSIVE FracText(_, _)
FracText(f, n) ==
    IF f % 10 = 0 THEN FracText(f \div 10, n - 1) ELSE Padded(f, n)

\* Decimal::to_string of an amount whose scale is the least that holds it:
\* sign, whole digits and, when there is a fraction, a point and its digits.
to_string(x) ==
    LET m == abs(x)
        whole == NatToText(m \div Unit)
        frac == m % Unit
    IN  (IF x < 0 THEN <<"-">> ELSE <<>>)
        \o whole
        \o (IF frac = 0 THEN <<>> ELSE <<".">> \o FracText(frac, MaxPrec))

----------------------------------------------------------------------------
(* AssetManager *)

asset_exist(name) == name \in DOMAIN assets

\* What a ledger call leaves behind: a panic (and the map as it was when the
\* panic unwound), or the map and the value returned.
Ok(bal, v) == [panic |-> FALSE, balances |-> bal, value |-> v]
Panic(bal) == [panic |-> TRUE, balances |-> bal, value |-> 0]

\* debug_assert!(c) fails only in a build that compiles the check in.
DebugAssertFails(c) == debug_assertions /\ ~c

----------------------------------------------------------------------------
(* BalanceManager *)

BalanceMapKey(user_id, balance_type, asset) ==
    [user_id |-> user_id, balance_type |-> balance_type, asset |-> asset]

get_by_key(bal, key) == IF key \in DOMAIN bal THEN bal[key] ELSE 0

get(bal, user_id, balance_type, asset) ==
    get_by_key(bal, BalanceMapKey(user_id, balance_type, asset))

get_with_round(bal, user_id, balance_type, asset) ==
    LET balance == get(bal, user_id, balance_type, asset)
    IN  IF assets[asset].prec_save = assets[asset].prec_show
        THEN balance
        ELSE round_dp(balance, assets[asset].prec_show)

Insert(bal, key, amount) ==
    [k \in DOMAIN bal \cup {key} |-> IF k = key THEN amount ELSE bal[k]]

Remove(bal, key) == [k \in DOMAIN bal \ {key} |-> bal[k]]

\* set_by_key that stores the amount as it came.
set_by_key_unrounded(bal, key, amount) ==
    IF DebugAssertFails(is_sign_positive(amount)) THEN Panic(bal)
    ELSE IF ~asset_exist(key.asset) THEN Panic(bal)
    ELSE Ok(Insert(bal, key, amount), amount)

set_by_key(bal, key, amount) ==
    IF DebugAssertFails(is_sign_positive(amount)) THEN Panic(bal)
    ELSE IF ~asset_exist(key.asset) THEN Panic(bal)
    ELSE LET rounded == round_dp(amount, assets[key.asset].prec_save)
         IN  Ok(Insert(bal, key, rounded), rounded)

set(bal, user_id, balance_type, asset, amount) ==
    set_by_key(bal, BalanceMapKey(user_id, balance_type, asset), amount)

del(bal, user_id, balance_type, asset) ==
    Ok(Remove(bal, BalanceMapKey(user_id, balance_type, asset)), 0)

\* add that opens a slot for an asset the registry does not know.
add_without_registry(bal, user_id, balance_type, asset, amount) ==
    IF DebugAssertFails(is_sign_positive(amount)) THEN Panic(bal)
    ELSE LET key == BalanceMapKey(user_id, balance_type, asset)
             rounded == IF asset_exist(asset)
                        THEN round_dp(amount, assets[asset].prec_save)
                        ELSE amount
             new_value == get_by_key(bal, key) + rounded
         IN  Ok(Insert(bal, key, new_value), new_value)

add(bal, user_id, balance_type, asset, amount) ==
    IF DebugAssertFails(is_sign_positive(amount)) THEN Panic(bal)
    ELSE IF ~asset_exist(asset) THEN Panic(bal)
    ELSE LET rounded == round_dp(amount, assets[asset].prec_save)
             key == BalanceMapKey(user_id, balance_type, asset)
             old_value == get_by_key(bal, key)
             new_value == old_value + rounded
             stored == set_by_key(bal, key, new_value)
         IN  IF stored.panic THEN stored ELSE Ok(stored.balances, new_value)

\* sub with the removal its comment keeps out: a result of zero takes the
\* entry away.
sub_removing_zero(bal, user_id, balance_type, asset, amount) ==
    IF DebugAssertFails(is_sign_positive(amount)) THEN Panic(bal)
    ELSE IF ~asset_exist(asset) THEN Panic(bal)
    ELSE LET rounded == round_dp(amount, assets[asset].prec_save)
             key == BalanceMapKey(user_id, balance_type, asset)
             old_value == get_by_key(bal, key)
             new_value == old_value - rounded
         IN  IF DebugAssertFails(old_value >= rounded) THEN Panic(bal)
             ELSE IF is_zero(new_value) THEN Ok(Remove(bal, key), new_value)
             ELSE Ok(Insert(bal, key, new_value), new_value)

sub(bal, user_id, balance_type, asset, amount) ==
    IF DebugAssertFails(is_sign_positive(amount)) THEN Panic(bal)
    ELSE IF ~asset_exist(asset) THEN Panic(bal)
    ELSE LET rounded == round_dp(amount, assets[asset].prec_save)
             key == BalanceMapKey(user_id, balance_type, asset)
             old_value == get_by_key(bal, key)
             new_value == old_value - rounded
         IN  IF DebugAssertFails(old_value >= rounded) THEN Panic(bal)
             ELSE LET stored == set_by_key(bal, key, new_value)
                  IN  IF stored.panic THEN stored
                      ELSE Ok(stored.balances, new_value)

\* The two ledger calls of frozen, in the order it makes them: what the
\* first leaves behind, then what the second does (the first's outcome again
\* when it panicked).
frozen_steps(bal, user_id, asset, rounded) ==
    LET first == sub(bal, user_id, AVAILABLE, asset, rounded)
    IN  << first,
           IF first.panic THEN first
           ELSE add(first.balances, user_id, FREEZE, asset, rounded) >>

\* The two ledger calls of unfrozen taken in the order of frozen.
unfrozen_steps_sub_first(bal, user_id, asset, rounded) ==
    LET first == sub(bal, user_id, FREEZE, asset, rounded)
    IN  << first,
           IF first.panic THEN first
           ELSE add(first.balances, user_id, AVAILABLE, asset, rounded) >>

\* The two ledger calls of unfrozen with the credit made twice.
unfrozen_steps_adding_twice(bal, user_id, asset, rounded) ==
    LET first == add(bal, user_id, AVAILABLE, asset, rounded)
        again == IF first.panic THEN first
                 ELSE add(first.balances, user_id, AVAILABLE, asset, rounded)
    IN  << first,
           IF again.panic THEN again
           ELSE sub(again.balances, user_id, FREEZE, asset, rounded) >>

\* The two ledger calls of unfrozen, in the order it makes them.
unfrozen_steps(bal, user_id, asset, rounded) ==
    LET first == add(bal, user_id, AVAILABLE, asset, rounded)
    IN  << first,
           IF first.panic THEN first
           ELSE sub(first.balances, user_id, FREEZE, asset, rounded) >>

\* frozen that credits FREEZE without debiting AVAILABLE.
frozen_without_sub(bal, user_id, asset, amount) ==
    IF ~asset_exist(asset) THEN Panic(bal)
    ELSE add(bal, user_id, FREEZE, asset,
             round_dp(amount, assets[asset].prec_save))

frozen(bal, user_id, asset, amount) ==
    IF DebugAssertFails(is_sign_positive(amount)) THEN Panic(bal)
    ELSE IF ~asset_exist(asset) THEN Panic(bal)
    ELSE LET rounded == round_dp(amount, assets[asset].prec_save)
             old_available_value == get(bal, user_id, AVAILABLE, asset)
         IN  IF DebugAssertFails(old_available_value >= rounded) THEN Panic(bal)
             ELSE frozen_steps(bal, user_id, asset, rounded)[2]

unfrozen(bal, user_id, asset, amount) ==
    IF DebugAssertFails(is_sign_positive(amount)) THEN Panic(bal)
    ELSE IF ~asset_exist(asset) THEN Panic(bal)
    ELSE LET rounded == round_dp(amount, assets[asset].prec_save)
             old_frozen_value == get(bal, user_id, FREEZE, asset)
         IN  IF DebugAssertFails(old_frozen_value >= rounded) THEN Panic(bal)
             ELSE unfrozen_steps(bal, user_id, asset, rounded)[2]

total(bal, user_id, asset) ==
    get(bal, user_id, AVAILABLE, asset) + get(bal, user_id, FREEZE, asset)

BalanceStatusDefault ==
    [total |-> 0, available_count |-> 0, available |-> 0,
     frozen_count |-> 0, frozen |-> 0]

\* The loop body of status() without its is_zero test.
StatusStep_counting_zero(bal, asset, result, k) ==
    IF k.asset = asset
    THEN IF k.balance_type = AVAILABLE
         THEN [result EXCEPT !.total = @ + bal[k],
                             !.available_count = @ + 1,
                             !.available = @ + bal[k]]
         ELSE [result EXCEPT !.total = @ + bal[k],
                             !.frozen_count = @ + 1,
                             !.frozen = @ + bal[k]]
    ELSE result

\* One turn of the loop of status(): entry k folded into result.
StatusStep(bal, asset, result, k) ==
    IF k.asset = asset /\ ~is_zero(bal[k])
    THEN IF k.balance_type = AVAILABLE
         THEN [result EXCEPT !.total = @ + bal[k],
                             !.available_count = @ + 1,
                             !.available = @ + bal[k]]
         ELSE [result EXCEPT !.total = @ + bal[k],
                             !.frozen_count = @ + 1,
                             !.frozen = @ + bal[k]]
    ELSE result

RECURSIVE StatusLoop(_, _, _, _)
StatusLoop(bal, asset, result, keys) ==
    IF keys = {} THEN result
    ELSE LET k == CHOOSE x \in keys : TRUE
         IN  StatusLoop(bal, asset, StatusStep(bal, asset, result, k), keys \ {k})

status(bal, asset) == StatusLoop(bal, asset, BalanceStatusDefault, DOMAIN bal)

----------------------------------------------------------------------------
(* BalanceUpdateController *)

\* TtlCache::new(capacity)
capacity == 1000000

BalanceUpdateKey(user_id, asset, business, business_id) ==
    [user_id |-> user_id, asset |-> asset, business |-> business,
     business_id |-> business_id]

\* A lookup that tells keys apart by business_id alone.
contains_key_by_business_id(cch, key) ==
    \E i \in 1..Len(cch) : cch[i].business_id = key.business_id

\* TtlCache::contains_key: the key has a marker that has not expired.  cache
\* lists the markers that have not expired, oldest first; every marker gets
\* the same lifetime, so they expire in that order (MarkerExpires).
contains_key(cch, key) == \E i \in 1..Len(cch) : cch[i] = key

\* TtlCache::insert: the marker becomes the newest; over capacity the oldest
\* one is dropped.
cache_insert(cch, key) ==
    LET appended == Append(SelectSeq(cch, LAMBDA e : e # key), key)
    IN  IF Len(appended) > capacity THEN Tail(appended) ELSE appended

\* The detail handed on as it came.
StampId_skipped(detail, business_id) == detail

\* detail["id"] = business_id on a JSON object.
StampId(detail, business_id) ==
    [f \in DOMAIN detail \cup {"id"} |->
        IF f = "id" THEN business_id ELSE detail[f]]

BalanceHistory(user_id, asset, business, change, balance, detail) ==
    [user_id |-> user_id, asset |-> asset, business |-> business,
     change |-> change, balance |-> balance, detail |-> detail]

BalanceMessage(user_id, asset, business, change) ==
    [user_id |-> user_id, asset |-> asset, business |-> business,
     change |-> change]

\* What a gate call leaves behind.
GateOut(panic, ret, bal, cch, hist, msgs) ==
    [panic |-> panic, ret |-> ret, balances |-> bal, cache |-> cch,
     history |-> hist, messages |-> msgs]

\* The ledger call update_user_balance picks for this change.
LedgerStep(bal, user_id, asset, change) ==
    LET abs_change == abs(change)
    IN  IF is_sign_positive(abs_change) \/ is_zero(abs_change)
        THEN add(bal, user_id, AVAILABLE, asset, abs_change)
        ELSE sub(bal, user_id, AVAILABLE, asset, abs_change)

\* update_user_balance once the key is known to be fresh: the ledger call,
\* the marker, and with real the two hand-offs.
Apply(bal, cch, real, user_id, asset, business, business_id, change, detail) ==
    LET cache_key == BalanceUpdateKey(user_id, asset, business, business_id)
        moved == LedgerStep(bal, user_id, asset, change)
        new_balance == moved.value
        marked == cache_insert(cch, cache_key)
        balance_history ==
            BalanceHistory(user_id, asset, business, change, new_balance,
                           StampId(detail, business_id))
        message == BalanceMessage(user_id, asset, business, to_string(change))
    IN  IF moved.panic
        THEN GateOut(TRUE, FALSE, moved.balances, cch, <<>>, <<>>)
        ELSE IF real
        THEN GateOut(FALSE, TRUE, moved.balances, marked,
                     <<balance_history>>, <<message>>)
        ELSE GateOut(FALSE, TRUE, moved.balances, marked, <<>>, <<>>)

\* What the gate, its ledger and its two sinks hold after a step of a call.
GateStep(step, bal, cch, hist, msgs) ==
    [step |-> step, balances |-> bal, cache |-> cch, history |-> hist,
     messages |-> msgs]

\* update_user_balance that marks the key before it moves the ledger.
GateSteps_marking_first(bal, cch, real, user_id, asset, business, business_id, change, detail) ==
    LET cache_key == BalanceUpdateKey(user_id, asset, business, business_id)
        looked == GateStep("contains_key", bal, cch, <<>>, <<>>)
        marked == GateStep("insert", bal, cache_insert(cch, cache_key), <<>>, <<>>)
        moved == LedgerStep(bal, user_id, asset, change)
        after == GateStep(IF moved.panic THEN "panic" ELSE "ledger",
                          moved.balances, marked.cache, <<>>, <<>>)
    IN  IF contains_key(cch, cache_key) THEN <<looked>>
        ELSE <<looked, marked, after>>

\* The steps of one call of update_user_balance in the order the code takes
\* them, each with what is held once it is done: the dedup lookup, the ledger
\* call (or its panic), the marker, and with real the record handed to
\* history_writer and then the message handed to message_manager.
GateSteps(bal, cch, real, user_id, asset, business, business_id, change, detail) ==
    LET cache_key == BalanceUpdateKey(user_id, asset, business, business_id)
        looked == GateStep("contains_key", bal, cch, <<>>, <<>>)
        moved == LedgerStep(bal, user_id, asset, change)
        after == GateStep(IF moved.panic THEN "panic" ELSE "ledger",
                          moved.balances, cch, <<>>, <<>>)
        marked == GateStep("insert", moved.balances,
                           cache_insert(cch, cache_key), <<>>, <<>>)
        balance_history ==
            BalanceHistory(user_id, asset, business, change, moved.value,
                           StampId(detail, business_id))
        appended == GateStep("append_balance_history", marked.balances,
                             marked.cache, <<balance_history>>, <<>>)
        message == BalanceMessage(user_id, asset, business, to_string(change))
        pushed == GateStep("push_balance_message", marked.balances,
                           marked.cache, <<balance_history>>, <<message>>)
    IN  IF contains_key(cch, cache_key) THEN <<looked>>
        ELSE IF moved.panic THEN <<looked, after>>
        ELSE IF ~real THEN <<looked, after, marked>>
        ELSE <<looked, after, marked, appended, pushed>>

\* The three Rc<RefCell<..>> fields of BalanceUpdateController.
Cells == {"balance_manager", "history_writer", "message_manager"}

BorrowEvent(op, cell) == [op |-> op, cell |-> cell]

\* borrow_mut() on the cell, the method called through the guard, and the
\* drop of the guard at the end of the statement (or while a panic unwinds).
BorrowedCall(cell) ==
    << BorrowEvent("borrow_mut", cell), BorrowEvent("call", cell),
       BorrowEvent("drop", cell) >>

\* A ledger guard bound to a name that lives to the end of the function.
StepEvents_holding_ledger(step) ==
    IF step \in {"ledger", "panic"}
    THEN << BorrowEvent("borrow_mut", "balance_manager"),
            BorrowEvent("call", "balance_manager") >>
    ELSE IF step = "append_balance_history" THEN BorrowedCall("history_writer")
    ELSE IF step = "push_balance_message" THEN BorrowedCall("message_manager")
    ELSE <<>>

\* What a step of update_user_balance does to the RefCells: the lookup and
\* the marker work on self.cache, a plain field.
StepEvents(step) ==
    IF step \in {"ledger", "panic"} THEN BorrowedCall("balance_manager")
    ELSE IF step = "append_balance_history" THEN BorrowedCall("history_writer")
    ELSE IF step = "push_balance_message" THEN BorrowedCall("message_manager")
    ELSE <<>>

\* The borrow events of a run of steps, in order.
RECURSIVE BorrowEvents(_)
BorrowEvents(steps) ==
    IF steps = <<>> THEN <<>>
    ELSE StepEvents(Head(steps).step) \o BorrowEvents(Tail(steps))

\* The cells mutably borrowed once the first n events have happened.
RECURSIVE Held(_, _)
Held(events, n) ==
    IF n = 0 THEN {}
    ELSE LET before == Held(events, n - 1)
             e == events[n]
         IN  IF e.op = "borrow_mut" THEN before \cup {e.cell}
             ELSE IF e.op = "drop" THEN before \ {e.cell}
             ELSE before

\* RefCell::borrow_mut panics (BorrowMutError) on a cell already borrowed.
BorrowMutPanics(events, n) ==
    events[n].op = "borrow_mut" /\ events[n].cell \in Held(events, n - 1)

\* RefCell::borrow, as a sink reading the ledger would call it, succeeds on
\* a cell that is not mutably borrowed.
try_borrow(held, cell) == cell \notin held

\* update_user_balance without its dedup lookup.
update_user_balance_no_lookup(bal, cch, real, user_id, asset, business, business_id, change, detail) ==
    Apply(bal, cch, real, user_id, asset, business, business_id, change, detail)

\* update_user_balance that leaves the ledger alone unless real is set.
update_user_balance_dry_run(bal, cch, real, user_id, asset, business, business_id, change, detail) ==
    LET cache_key == BalanceUpdateKey(user_id, asset, business, business_id)
    IN  IF contains_key(cch, cache_key)
        THEN GateOut(FALSE, FALSE, bal, cch, <<>>, <<>>)
        ELSE IF real
        THEN Apply(bal, cch, real, user_id, asset, business, business_id,
                   change, detail)
        ELSE GateOut(FALSE, TRUE, bal, cache_insert(cch, cache_key), <<>>, <<>>)

update_user_balance(bal, cch, real, user_id, asset, business, business_id, change, detail) ==
    IF contains_key(cch, BalanceUpdateKey(user_id, asset, business, business_id))
    THEN GateOut(FALSE, FALSE, bal, cch, <<>>, <<>>)
    ELSE Apply(bal, cch, real, user_id, asset, business, business_id, change,
               detail)

----------------------------------------------------------------------------
(* The state machine *)

\* A panic ends the run.  A run is also followed no further once the ledger
\* holds a negative amount.
Running ==
    /\ returned # "panic"
    /\ \A k \in DOMAIN balances : balances[k] >= 0

\* The model keeps every slot within MaxBalance (through the gate) or
\* MaxLedger (by the ledger's own operations) half units of zero.
InBounds(bal) ==
    \A k \in DOMAIN bal :
        /\ -(MaxBalance * Unit) <= 2 * bal[k]
        /\ 2 * bal[k] <= MaxBalance * Unit

InLedgerBounds(bal) ==
    \A k \in DOMAIN bal :
        /\ -(MaxLedger * Unit) <= 2 * bal[k]
        /\ 2 * bal[k] <= MaxLedger * Unit

Ended(panic) == IF panic THEN "panic" ELSE "ok"

\* A ledger call made directly on the BalanceManager.
LedgerCall(out) ==
    /\ InLedgerBounds(out.balances)
    /\ balances' = out.balances
    /\ returned' = Ended(out.panic)
    /\ history' = <<>>
    /\ messages' = <<>>
    /\ UNCHANGED <<cache, debug_assertions>>

Set(user_id, balance_type, asset, amount) ==
    /\ Running
    /\ LedgerCall(set(balances, user_id, balance_type, asset, amount))

Add(user_id, balance_type, asset, amount) ==
    /\ Running
    /\ LedgerCall(add(balances, user_id, balance_type, asset, amount))

Sub(user_id, balance_type, asset, amount) ==
    /\ Running
    /\ LedgerCall(sub(balances, user_id, balance_type, asset, amount))

Frozen(user_id, asset, amount) ==
    /\ Running
    /\ LedgerCall(frozen(balances, user_id, asset, amount))

Unfrozen(user_id, asset, amount) ==
    /\ Running
    /\ LedgerCall(unfrozen(balances, user_id, asset, amount))

Del(user_id, balance_type, asset) ==
    /\ Running
    /\ LedgerCall(del(balances, user_id, balance_type, asset))

\* A ledger reset that empties the dedup set as well.
LedgerReset_clearing_markers ==
    /\ Running
    /\ balances' = [k \in {} |-> 0]
    /\ cache' = <<>>
    /\ returned' = "ok"
    /\ history' = <<>>
    /\ messages' = <<>>
    /\ UNCHANGED debug_assertions

\* BalanceManager::reset
LedgerReset ==
    /\ Running
    /\ LedgerCall(Ok([k \in {} |-> 0], 0))

\* BalanceManager::status: a query.
Status(asset) ==
    /\ Running
    /\ LedgerCall(Ok(balances, 0))

\* BalanceUpdateController::reset
GateReset ==
    /\ Running
    /\ cache' = <<>>
    /\ returned' = "ok"
    /\ history' = <<>>
    /\ messages' = <<>>
    /\ UNCHANGED <<balances, debug_assertions>>

\* on_timer that leaves the markers in place.
OnTimer_keeping_markers ==
    /\ Running
    /\ returned' = "ok"
    /\ history' = <<>>
    /\ messages' = <<>>
    /\ UNCHANGED <<balances, cache, debug_assertions>>

OnTimer ==
    /\ Running
    /\ cache' = <<>>
    /\ returned' = "ok"
    /\ history' = <<>>
    /\ messages' = <<>>
    /\ UNCHANGED <<balances, debug_assertions>>

\* An hour has passed since the oldest marker was inserted: it expires.
MarkerExpires ==
    /\ Running
    /\ cache # <<>>
    /\ cache' = Tail(cache)
    /\ returned' = "ok"
    /\ history' = <<>>
    /\ messages' = <<>>
    /\ UNCHANGED <<balances, debug_assertions>>

UpdateUserBalance(real, user_id, asset, business, business_id, change, detail) ==
    LET out == update_user_balance(balances, cache, real, user_id, asset,
                                   business, business_id, change, detail)
    IN  /\ Running
        /\ InBounds(out.balances)
        /\ balances' = out.balances
        /\ cache' = out.cache
        /\ history' = out.history
        /\ messages' = out.messages
        /\ returned' = IF out.panic THEN "panic"
                       ELSE IF out.ret THEN "true" ELSE "false"
        /\ UNCHANGED debug_assertions

Init ==
    /\ balances = [k \in {} |-> 0]
    /\ cache = <<>>
    /\ history = <<>>
    /\ messages = <<>>
    /\ debug_assertions \in BOOLEAN
    /\ returned = "ok"

\* The gate and what surrounds it.
Next ==
    \/ \E real \in BOOLEAN, k \in GateKeys, change \in Changes, detail \in Details :
           UpdateUserBalance(real, k.user_id, k.asset, k.business,
                             k.business_id, change, detail)
    \/ \E real \in BOOLEAN, k \in UnregisteredKeys, change \in Changes, detail \in Details :
           UpdateUserBalance(real, k.user_id, k.asset, k.business,
                             k.business_id, change, detail)
    \/ GateReset
    \/ OnTimer
    \/ MarkerExpires
    \/ LedgerReset

Spec == Init /\ [][Next]_vars

\* The ledger's own operations.
NextLedger ==
    \/ \E acct \in Accounts, t \in BalanceType, x \in Amounts :
           Set(acct[1], t, acct[2], x)
    \/ \E acct \in Accounts, t \in BalanceType, x \in Amounts :
           Add(acct[1], t, acct[2], x)
    \/ \E acct \in Accounts, t \in BalanceType, x \in Amounts :
           Sub(acct[1], t, acct[2], x)
    \/ \E acct \in Accounts, x \in Amounts : Frozen(acct[1], acct[2], x)
    \/ \E acct \in Accounts, x \in Amounts : Unfrozen(acct[1], acct[2], x)
    \/ \E acct \in Accounts, t \in BalanceType : Del(acct[1], t, acct[2])
    \/ \E a \in AssetNames : Status(a)
    \/ LedgerReset

SpecLedger == Init /\ [][NextLedger]_vars

----------------------------------------------------------------------------
(* Helpers of the properties *)

\* Every call of update_user_balance the gate specification makes.
GateCalls ==
    [real : BOOLEAN, key : GateKeys, change : Changes, detail : Details]

\* This step is the call c of update_user_balance.
Called(c) ==
    UpdateUserBalance(c.real, c.key.user_id, c.key.asset, c.key.business,
                      c.key.business_id, c.change, c.detail)

\* The calls of update_user_balance for an asset that is not registered.
UnregisteredCalls ==
    [real : BOOLEAN, key : UnregisteredKeys, change : Changes, detail : Details]

\* The accounts of an asset that is not registered.
UnregisteredAccounts == {acct \in Accounts : ~asset_exist(acct[2])}

\* A ledger call that ended in a panic with the map as it was.
FailedUntouched(out, bal) == out.panic /\ out.balances = bal

\* The steps of call c made with ledger bal and dedup set cch.
StepsOf(bal, cch, c) ==
    GateSteps(bal, cch, c.real, c.key.user_id, c.key.asset, c.key.business,
              c.key.business_id, c.change, c.detail)

\* What update_user_balance leaves behind for call c.
OutcomeOf(bal, cch, c) ==
    update_user_balance(bal, cch, c.real, c.key.user_id, c.key.asset,
                        c.key.business, c.key.business_id, c.change, c.detail)

\* Ledgers before and after agree on every key outside keys: the same keys
\* are present and hold the same amounts.
SameElsewhere(before, after, keys) ==
    /\ DOMAIN before \ keys = DOMAIN after \ keys
    /\ \A k \in DOMAIN before \ keys : after[k] = before[k]

\* The business names callers pass.
Businesses == {"deposit", "withdraw"}

\* The keys that share business_id with key k and differ from it in exactly
\* one of user_id, asset and business.
SameBusinessId(k) ==
    {[k EXCEPT !.user_id = u] : u \in Users \ {k.user_id}}
    \cup {[k EXCEPT !.asset = a] : a \in DOMAIN assets \ {k.asset}}
    \cup {[k EXCEPT !.business = b] : b \in Businesses \ {k.business}}

\* The user's AVAILABLE amount of the asset of call c, in ledger bal.
AvailableOf(bal, c) == get(bal, c.key.user_id, AVAILABLE, c.key.asset)

\* |change| at the store precision of the asset of call c.
Magnitude(c) == round_dp(abs(c.change), assets[c.key.asset].prec_save)

RegisteredAccounts == {acct \in Accounts : asset_exist(acct[2])}

\* amount at the store precision of the asset.
Stored(asset, amount) == round_dp(amount, assets[asset].prec_save)

\* The entries of one asset and one balance type that are not zero.
NonZero(bal, asset, balance_type) ==
    {k \in DOMAIN bal :
        k.asset = asset /\ k.balance_type = balance_type /\ bal[k] # 0}

RECURSIVE SumOver(_, _)
SumOver(bal, keys) ==
    IF keys = {} THEN 0
    ELSE LET k == CHOOSE x \in keys : TRUE
         IN  bal[k] + SumOver(bal, keys \ {k})

Restrict(bal, keys) == [k \in keys |-> bal[k]]

\* The finest amount an asset stores: 10^-prec_save, in the model's unit.
Quantum(asset) == Pow10(MaxPrec - assets[asset].prec_save)

\* Every amount in bal has no more fractional digits than its asset stores.
AtStorePrecision(bal) ==
    \A k \in DOMAIN bal : asset_exist(k.asset) => bal[k] % Quantum(k.asset) = 0

----------------------------------------------------------------------------
(* Properties *)

\* C1: once update_user_balance has returned true for a dedup key, the key
\* stays marked over every step that is not reset(), on_timer() or the
\* marker's expiry, and a call whose key is marked returns false, leaves
\* every ledger slot as it was and hands nothing to either sink, whatever
\* its change, detail and real flag.
C1_ReplayIsRejected ==
    [][ /\ \A c \in GateCalls :
              (returned' = "true" /\ Called(c)) => contains_key(cache', c.key)
        /\ ~(GateReset \/ OnTimer \/ MarkerExpires) =>
              \A k \in GateKeys :
                  contains_key(cache, k) => contains_key(cache', k)
        /\ \A c \in GateCalls :
              (contains_key(cache, c.key) /\ Called(c)) =>
                  /\ returned' = "false"
                  /\ balances' = balances
                  /\ history' = <<>>
                  /\ messages' = <<>> ]_vars

\* C1 witness: a replay was rejected while the ledger held the first call's
\* credit and the marker was still in place.
C1_Witness ==
    /\ returned = "false"
    /\ cache # <<>>
    /\ \E k \in DOMAIN balances : balances[k] > 0

\* C2: a fresh call that returns true leaves the AVAILABLE amount at its
\* previous value plus the signed change at store precision, so that a
\* negative change lowers it.
C2_SignedChangeIsApplied ==
    [][ \A c \in GateCalls :
           (~contains_key(cache, c.key) /\ returned' = "true" /\ Called(c)) =>
               AvailableOf(balances', c) =
                   AvailableOf(balances, c)
                   + (IF c.change >= 0 THEN Magnitude(c) ELSE -Magnitude(c)) ]_vars

\* C3: no amount in the ledger map is negative.
C3_NoNegativeAmount == \A k \in DOMAIN balances : balances[k] >= 0

\* C4: a call with real set that returns true hands exactly one record to
\* the audit sink and one message to the notification sink, both with the
\* call's user_id, asset, business and signed change, the record with
\* business_id under detail["id"]; no other step hands anything to either
\* sink, so records, messages and such calls stay equal in number.
C4_PersistedCallHandsOneOfEach ==
    [][ /\ \A c \in GateCalls :
              (c.real /\ returned' = "true" /\ Called(c)) =>
                  /\ Len(history') = 1
                  /\ Len(messages') = 1
                  /\ history'[1].user_id = c.key.user_id
                  /\ history'[1].asset = c.key.asset
                  /\ history'[1].business = c.key.business
                  /\ history'[1].change = c.change
                  /\ "id" \in DOMAIN history'[1].detail
                  /\ history'[1].detail["id"] = c.key.business_id
                  /\ messages'[1].user_id = c.key.user_id
                  /\ messages'[1].asset = c.key.asset
                  /\ messages'[1].business = c.key.business
                  /\ messages'[1].change = to_string(c.change)
        /\ Len(history') = Len(messages')
        /\ Len(history') =
              IF \E c \in GateCalls : c.real /\ returned' = "true" /\ Called(c)
              THEN 1 ELSE 0 ]_vars

\* C4 witness: a debit of one unit was persisted; the record and the message
\* carry it signed, the message as the text -1.
C4_Witness ==
    /\ returned = "true"
    /\ Len(history) = 1
    /\ Len(messages) = 1
    /\ history[1].change = -Unit
    /\ messages[1].change = <<"-", "1">>

\* C5: a fresh call without real returns true, marks the key and changes the
\* ledger exactly as the same call with real would (AVAILABLE rises by the
\* magnitude of the change), and hands nothing to either sink.
C5_UnpersistedCallStillMovesLedger ==
    [][ \A c \in GateCalls :
           (~c.real /\ ~contains_key(cache, c.key) /\ Called(c)) =>
               /\ returned' = "true"
               /\ contains_key(cache', c.key)
               /\ balances' =
                     update_user_balance(balances, cache, TRUE, c.key.user_id,
                         c.key.asset, c.key.business, c.key.business_id,
                         c.change, c.detail).balances
               /\ AvailableOf(balances', c) = AvailableOf(balances, c) + Magnitude(c)
               /\ history' = <<>>
               /\ messages' = <<>> ]_vars

\* C5 witness: an unpersisted call has credited the ledger and marked its key.
C5_Witness ==
    /\ returned = "true"
    /\ history = <<>>
    /\ messages = <<>>
    /\ cache # <<>>
    /\ \E k \in DOMAIN balances : balances[k] > 0

\* C6: on_timer() and reset() leave the dedup set empty whatever it held, and
\* a call whose key is not marked returns true and credits the ledger, also
\* when the same key was applied before the clear.
C6_ClearReopensEveryKey ==
    [][ /\ (OnTimer \/ GateReset) => cache' = <<>>
        /\ \A c \in GateCalls :
              (~contains_key(cache, c.key) /\ Called(c)) =>
                  /\ returned' = "true"
                  /\ AvailableOf(balances', c) =
                        AvailableOf(balances, c) + Magnitude(c) ]_vars

\* C6 witness: the one event that credits user 1's ETH has just been applied
\* again: the slot holds more than any single change gives, and the event's
\* marker is the only one.
C6_Witness ==
    LET k == [user_id |-> 1, asset |-> "ETH", business |-> "deposit",
              business_id |-> 1001]
    IN  /\ returned = "true"
        /\ cache = <<k>>
        /\ \A change \in Changes :
              get(balances, 1, AVAILABLE, "ETH") >
                  round_dp(abs(change), assets["ETH"].prec_save)

\* C7: frozen(u, a, x) with 0 <= x <= AVAILABLE followed at once by
\* unfrozen(u, a, x) gives back the AVAILABLE and FREEZE amounts of before.
C7_FreezeUnfreezeRestores ==
    \A acct \in RegisteredAccounts, x \in Amounts :
        LET u == acct[1]
            a == acct[2]
            held == frozen(balances, u, a, x)
            freed == unfrozen(held.balances, u, a, x)
        IN  (0 <= x /\ x <= get(balances, u, AVAILABLE, a)) =>
                /\ ~held.panic
                /\ ~freed.panic
                /\ get(freed.balances, u, AVAILABLE, a) = get(balances, u, AVAILABLE, a)
                /\ get(freed.balances, u, FREEZE, a) = get(balances, u, FREEZE, a)

\* C7 witness: an account holds enough to freeze a positive amount, freezing
\* it moves that amount, and its FREEZE slot is present at zero as unfrozen
\* leaves it.
C7_Witness ==
    \E acct \in RegisteredAccounts, x \in Amounts :
        LET u == acct[1]
            a == acct[2]
            held == frozen(balances, u, a, x)
        IN  /\ Stored(a, x) > 0
            /\ x <= get(balances, u, AVAILABLE, a)
            /\ BalanceMapKey(u, FREEZE, a) \in DOMAIN balances
            /\ get(balances, u, FREEZE, a) = 0
            /\ get(held.balances, u, FREEZE, a) = Stored(a, x)
            /\ get(held.balances, u, AVAILABLE, a) =
                  get(balances, u, AVAILABLE, a) - Stored(a, x)

\* C8: sub of more than the slot holds ends in a panic with the ledger map
\* as it was before the call.
C8_SubInsufficientIsFatal ==
    [][ \A acct \in RegisteredAccounts, t \in BalanceType, x \in Amounts :
           ( /\ get(balances, acct[1], t, acct[2]) < Stored(acct[2], x)
             /\ Sub(acct[1], t, acct[2], x) ) =>
               /\ returned' = "panic"
               /\ balances' = balances ]_vars

\* C9: frozen and unfrozen either panic with both slots unchanged (the source
\* slot holds less than the amount) or move the amount from the source slot
\* to the destination slot.
C9_FreezeIsAllOrNothing ==
    [][ \A acct \in RegisteredAccounts, x \in Amounts :
           LET u == acct[1]
               a == acct[2]
               avail == get(balances, u, AVAILABLE, a)
               frz == get(balances, u, FREEZE, a)
           IN  /\ Frozen(u, a, x) =>
                      IF avail < Stored(a, x)
                      THEN returned' = "panic" /\ balances' = balances
                      ELSE /\ returned' = "ok"
                           /\ get(balances', u, AVAILABLE, a) = avail - Stored(a, x)
                           /\ get(balances', u, FREEZE, a) = frz + Stored(a, x)
               /\ Unfrozen(u, a, x) =>
                      IF frz < Stored(a, x)
                      THEN returned' = "panic" /\ balances' = balances
                      ELSE /\ returned' = "ok"
                           /\ get(balances', u, FREEZE, a) = frz - Stored(a, x)
                           /\ get(balances', u, AVAILABLE, a) = avail + Stored(a, x) ]_vars

\* C10: status(a) counts the AVAILABLE and the FREEZE entries of asset a
\* that are not zero, sums them, and totals the two sums; entries at zero
\* and entries of other assets change nothing in the result.
C10_StatusCountsNonZeroEntries ==
    \A a \in AssetNames :
        LET st == status(balances, a)
            av == NonZero(balances, a, AVAILABLE)
            fr == NonZero(balances, a, FREEZE)
        IN  /\ st.available_count = Cardinality(av)
            /\ st.frozen_count = Cardinality(fr)
            /\ st.available = SumOver(balances, av)
            /\ st.frozen = SumOver(balances, fr)
            /\ st.total = st.available + st.frozen
            /\ st = status(Restrict(balances, av \cup fr), a)

\* C10 witness: BTC has two AVAILABLE entries and one FREEZE entry that are
\* not zero and an entry at zero, and another asset has an entry too.
C10_Witness ==
    /\ Cardinality(NonZero(balances, "BTC", AVAILABLE)) = 2
    /\ Cardinality(NonZero(balances, "BTC", FREEZE)) = 1
    /\ \E k \in DOMAIN balances : k.asset = "BTC" /\ balances[k] = 0
    /\ \E k \in DOMAIN balances : k.asset = "ETH" /\ balances[k] # 0
    /\ status(balances, "BTC").total > status(balances, "BTC").available

\* C11: every amount stored for a registered asset is a multiple of
\* 10^-prec_save, after any sequence of set, add, sub, frozen and unfrozen
\* calls, and so is every amount the ledger call of update_user_balance
\* stores from there, also when the amount passed has more fractional digits
\* than the asset stores.
C11_StoredAtStorePrecision ==
    /\ AtStorePrecision(balances)
    /\ \A k \in GateKeys, change \in Changes :
          AtStorePrecision(LedgerStep(balances, k.user_id, k.asset, change).balances)

\* C11 witness: a slot holds an amount, and adding an amount with more
\* digits than the asset stores gives a sum other than the exact one.
C11_Witness ==
    \E acct \in RegisteredAccounts, t \in BalanceType, x \in Amounts :
        LET u == acct[1]
            a == acct[2]
            summed == add(balances, u, t, a, x)
        IN  /\ x % Quantum(a) # 0
            /\ get(balances, u, t, a) > 0
            /\ ~summed.panic
            /\ summed.value # get(balances, u, t, a) + x
            /\ get(summed.balances, u, t, a) = summed.value

\* C12: update_user_balance for an asset that is not registered panics with
\* the ledger and the dedup set as they were and nothing handed to either
\* sink; set, add, sub, frozen and unfrozen for such an asset panic with the
\* ledger as it was.
C12_UnknownAssetIsFatal ==
    [][ /\ \A c \in UnregisteredCalls :
              Called(c) =>
                  /\ returned' = "panic"
                  /\ balances' = balances
                  /\ cache' = cache
                  /\ history' = <<>>
                  /\ messages' = <<>>
        /\ \A acct \in UnregisteredAccounts, x \in Amounts :
              /\ FailedUntouched(frozen(balances, acct[1], acct[2], x), balances)
              /\ FailedUntouched(unfrozen(balances, acct[1], acct[2], x), balances)
              /\ \A t \in BalanceType :
                    /\ FailedUntouched(set(balances, acct[1], t, acct[2], x), balances)
                    /\ FailedUntouched(add(balances, acct[1], t, acct[2], x), balances)
                    /\ FailedUntouched(sub(balances, acct[1], t, acct[2], x), balances) ]_vars

\* C12 witness: a call for an asset that is not registered has panicked
\* while the ledger held a credit and the dedup set a marker.
C12_Witness ==
    /\ returned = "panic"
    /\ cache # <<>>
    /\ \E k \in DOMAIN balances : balances[k] > 0
    /\ \A k \in DOMAIN balances : asset_exist(k.asset)
    /\ \A i \in 1..Len(cache) : asset_exist(cache[i].asset)

\* C13: every record update_user_balance hands to the audit sink has
\* balance = the user's AVAILABLE amount of the asset before the call plus
\* the record's signed change (at store precision), and that balance is the
\* AVAILABLE amount the ledger holds after the call.
C13_RecordBalanceFollowsChange ==
    [][ \A c \in GateCalls :
           (c.real /\ returned' = "true" /\ Called(c)) =>
               /\ Len(history') = 1
               /\ history'[1].balance = AvailableOf(balances', c)
               /\ history'[1].balance =
                     AvailableOf(balances, c)
                     + (IF history'[1].change >= 0
                        THEN Magnitude(c) ELSE -Magnitude(c)) ]_vars

\* C14 (as the code has it): with enough in the source slot, frozen first
\* subtracts from AVAILABLE and then adds to FREEZE, while unfrozen first
\* adds to AVAILABLE and then subtracts from FREEZE: between its two ledger
\* calls AVAILABLE already holds the amount and FREEZE still holds it too.
C14_UnfrozenAddsBeforeItSubtracts ==
    \A acct \in RegisteredAccounts, x \in Amounts :
        LET u == acct[1]
            a == acct[2]
            r == Stored(a, x)
            avail == get(balances, u, AVAILABLE, a)
            frz == get(balances, u, FREEZE, a)
            held == frozen_steps(balances, u, a, r)
            freed == unfrozen_steps(balances, u, a, r)
        IN  /\ (0 <= r /\ r <= avail) =>
                  /\ get(held[1].balances, u, AVAILABLE, a) = avail - r
                  /\ get(held[1].balances, u, FREEZE, a) = frz
                  /\ get(held[2].balances, u, FREEZE, a) = frz + r
            /\ (0 <= r /\ r <= frz) =>
                  /\ get(freed[1].balances, u, AVAILABLE, a) = avail + r
                  /\ get(freed[1].balances, u, FREEZE, a) = frz
                  /\ get(freed[2].balances, u, FREEZE, a) = frz - r

\* C14 witness: an account has a positive amount frozen that unfrozen can
\* release, and a positive amount available that frozen can hold.
C14_Witness ==
    \E acct \in RegisteredAccounts, x \in Amounts :
        LET u == acct[1]
            a == acct[2]
            r == Stored(a, x)
        IN  /\ r > 0
            /\ r <= get(balances, u, FREEZE, a)
            /\ r <= get(balances, u, AVAILABLE, a)
            /\ ~unfrozen(balances, u, a, x).panic
            /\ get(unfrozen(balances, u, a, x).balances, u, FREEZE, a)
                  = get(balances, u, FREEZE, a) - r

\* C14 (as the spec has it): unfrozen first subtracts from FREEZE and then
\* adds to AVAILABLE: between its two ledger calls FREEZE has fallen by the
\* amount and AVAILABLE is as before.
C14_UnfrozenSubtractsFirst ==
    \A acct \in RegisteredAccounts, x \in Amounts :
        LET u == acct[1]
            a == acct[2]
            r == Stored(a, x)
            avail == get(balances, u, AVAILABLE, a)
            frz == get(balances, u, FREEZE, a)
            freed == unfrozen_steps(balances, u, a, r)
        IN  (0 <= r /\ r <= frz) =>
                /\ get(freed[1].balances, u, FREEZE, a) = frz - r
                /\ get(freed[1].balances, u, AVAILABLE, a) = avail

\* C15: a call of update_user_balance that returns true takes its steps in
\* the order dedup lookup, ledger call, marker, audit record, notification
\* (the last two only with real); the steps end in what the call leaves
\* behind; the dedup set differs from what it was only once the ledger holds
\* the new balance, so that a call that panics in the ledger leaves the key
\* unmarked; and a sink holds something only once the ledger holds the new
\* balance and the key is marked.
C15_StepsInOrder ==
    \A c \in GateCalls \cup UnregisteredCalls :
        LET tr == StepsOf(balances, cache, c)
            out == OutcomeOf(balances, cache, c)
            last == tr[Len(tr)]
        IN  /\ last.balances = out.balances
            /\ last.cache = out.cache
            /\ last.history = out.history
            /\ last.messages = out.messages
            /\ out.panic <=> last.step = "panic"
            /\ (~out.panic /\ out.ret) =>
                  [i \in 1..Len(tr) |-> tr[i].step] =
                      IF c.real
                      THEN <<"contains_key", "ledger", "insert",
                             "append_balance_history", "push_balance_message">>
                      ELSE <<"contains_key", "ledger", "insert">>
            /\ out.panic =>
                  /\ out.cache = cache
                  /\ ~contains_key(out.cache, c.key)
            /\ \A i \in 1..Len(tr) :
                  /\ tr[i].cache # cache =>
                        /\ tr[i].step # "panic"
                        /\ tr[i].balances = out.balances
                  /\ (tr[i].history # <<>> \/ tr[i].messages # <<>>) =>
                        /\ tr[i].balances = out.balances
                        /\ contains_key(tr[i].cache, c.key)
                        /\ tr[i].history[1].balance = AvailableOf(tr[i].balances, c)
                  /\ tr[i].messages # <<>> => tr[i].history # <<>>

\* C15 witness: a persisted call has gone through all five steps on a ledger
\* that already held a credit, and what the model holds is what its last
\* step left.
C15_Witness ==
    /\ returned = "true"
    /\ Len(history) = 1
    /\ Len(messages) = 1
    /\ Len(cache) > 1
    /\ \E c \in GateCalls :
          /\ c.real
          /\ c.key = cache[Len(cache)]
          /\ c.change = history[1].change
          /\ c.change # 0
          /\ contains_key(cache, c.key)
          /\ history[1].balance = AvailableOf(balances, c)
          /\ history[1].balance > Magnitude(c)

\* C16: a frozen or unfrozen call that returns leaves total(u, a) =
\* AVAILABLE + FREEZE as it was and leaves every slot but the two of (u, a)
\* alone; set, add and sub leave every slot but the one they are called for
\* alone; the ledger call of update_user_balance leaves every slot but the
\* AVAILABLE one of its user and asset alone, the FREEZE one included.
C16_FreezeConservesTotal ==
    /\ \A acct \in RegisteredAccounts, x \in Amounts :
          LET u == acct[1]
              a == acct[2]
              pair == {BalanceMapKey(u, AVAILABLE, a), BalanceMapKey(u, FREEZE, a)}
              held == frozen(balances, u, a, x)
              freed == unfrozen(balances, u, a, x)
          IN  /\ ~held.panic =>
                    /\ total(held.balances, u, a) = total(balances, u, a)
                    /\ SameElsewhere(balances, held.balances, pair)
              /\ ~freed.panic =>
                    /\ total(freed.balances, u, a) = total(balances, u, a)
                    /\ SameElsewhere(balances, freed.balances, pair)
              /\ \A t \in BalanceType :
                    LET one == {BalanceMapKey(u, t, a)}
                    IN  /\ SameElsewhere(balances, set(balances, u, t, a, x).balances, one)
                        /\ SameElsewhere(balances, add(balances, u, t, a, x).balances, one)
                        /\ SameElsewhere(balances, sub(balances, u, t, a, x).balances, one)
    /\ \A k \in GateKeys, change \in Changes :
          SameElsewhere(balances,
                        LedgerStep(balances, k.user_id, k.asset, change).balances,
                        {BalanceMapKey(k.user_id, AVAILABLE, k.asset)})

\* C16 witness: an account with amounts in both slots, next to another
\* account's slots, of which frozen moves a positive amount: AVAILABLE falls
\* and the total stays.
C16_Witness ==
    \E acct \in RegisteredAccounts, x \in Amounts :
        LET u == acct[1]
            a == acct[2]
            held == frozen(balances, u, a, x)
        IN  /\ get(balances, u, AVAILABLE, a) > 0
            /\ get(balances, u, FREEZE, a) > 0
            /\ \E k \in DOMAIN balances :
                  (k.user_id # u \/ k.asset # a) /\ balances[k] > 0
            /\ ~held.panic
            /\ get(held.balances, u, AVAILABLE, a) < get(balances, u, AVAILABLE, a)
            /\ total(held.balances, u, a) = total(balances, u, a)

\* C17: with a key marked, a call that shares its business_id but differs in
\* user_id, in asset or in business, and is not marked itself, returns true,
\* credits its own AVAILABLE slot and is marked next to the first key.
C17_KeyIsTheFullTuple ==
    \A i \in 1..Len(cache) :
        \A k \in SameBusinessId(cache[i]), real \in BOOLEAN, change \in Changes :
            LET c == [real |-> real, key |-> k, change |-> change,
                      detail |-> [f \in {} |-> 0]]
                out == OutcomeOf(balances, cache, c)
            IN  (\A j \in 1..Len(cache) : cache[j] # k) =>
                    /\ ~contains_key(cache, k)
                    /\ ~out.panic
                    /\ out.ret
                    /\ AvailableOf(out.balances, c) =
                          AvailableOf(balances, c) + Magnitude(c)
                    /\ contains_key(out.cache, k)
                    /\ contains_key(out.cache, cache[i])

\* C17 witness: two events with one business_id and different assets have
\* both been applied: both keys are marked and both slots hold a credit.
C17_Witness ==
    /\ returned = "true"
    /\ \E i, j \in 1..Len(cache) :
          /\ cache[i].business_id = cache[j].business_id
          /\ cache[i].user_id = cache[j].user_id
          /\ cache[i].business = cache[j].business
          /\ cache[i].asset # cache[j].asset
          /\ get(balances, cache[i].user_id, AVAILABLE, cache[i].asset) > 0
          /\ get(balances, cache[j].user_id, AVAILABLE, cache[j].asset) > 0

\* C18: reset() and on_timer() of the gate leave every ledger slot as it
\* was; reset() of the ledger leaves the map empty, so that every get gives
\* zero, and leaves the dedup set as it was, so that a call for a key marked
\* before still returns false and credits nothing.
C18_ResetsAreIndependent ==
    [][ /\ (GateReset \/ OnTimer) => balances' = balances
        /\ LedgerReset =>
              /\ DOMAIN balances' = {}
              /\ cache' = cache
              /\ \A acct \in Accounts, t \in BalanceType :
                    get(balances', acct[1], t, acct[2]) = 0
              /\ \A c \in GateCalls :
                    contains_key(cache, c.key) =>
                        LET out == OutcomeOf(balances', cache', c)
                        IN  /\ ~out.panic
                            /\ ~out.ret
                            /\ out.balances = balances'
                            /\ out.history = <<>>
                            /\ out.messages = <<>> ]_vars

\* C18 witness: a replay has been rejected on a ledger that reset() emptied:
\* the key is still marked and the map is empty.
C18_Witness ==
    /\ returned = "false"
    /\ cache # <<>>
    /\ DOMAIN balances = {}

\* C19: set, add, sub, frozen, unfrozen and the ledger call of
\* update_user_balance take no key out of the map; sub, frozen and unfrozen
\* that bring a slot to zero leave its key present with the amount zero; del
\* takes out its own key and no other; get gives zero for a key holding zero
\* and for a key that is absent.
C19_ZeroEntriesStay ==
    /\ \A acct \in RegisteredAccounts, x \in Amounts :
          LET u == acct[1]
              a == acct[2]
              r == Stored(a, x)
              held == frozen(balances, u, a, x).balances
              freed == unfrozen(balances, u, a, x).balances
          IN  /\ DOMAIN balances \subseteq DOMAIN held
              /\ DOMAIN balances \subseteq DOMAIN freed
              /\ get(balances, u, AVAILABLE, a) = r =>
                    /\ BalanceMapKey(u, AVAILABLE, a) \in DOMAIN held
                    /\ held[BalanceMapKey(u, AVAILABLE, a)] = 0
              /\ get(balances, u, FREEZE, a) = r =>
                    /\ BalanceMapKey(u, FREEZE, a) \in DOMAIN freed
                    /\ freed[BalanceMapKey(u, FREEZE, a)] = 0
              /\ \A t \in BalanceType :
                    LET key == BalanceMapKey(u, t, a)
                        less == sub(balances, u, t, a, x).balances
                    IN  /\ DOMAIN balances \subseteq DOMAIN set(balances, u, t, a, x).balances
                        /\ DOMAIN balances \subseteq DOMAIN add(balances, u, t, a, x).balances
                        /\ DOMAIN balances \subseteq DOMAIN less
                        /\ get(balances, u, t, a) = r =>
                              /\ key \in DOMAIN less
                              /\ less[key] = 0
                              /\ get(less, u, t, a) = 0
    /\ \A acct \in Accounts, t \in BalanceType :
          LET key == BalanceMapKey(acct[1], t, acct[2])
          IN  /\ DOMAIN del(balances, acct[1], t, acct[2]).balances
                    = DOMAIN balances \ {key}
              /\ key \notin DOMAIN balances => get(balances, acct[1], t, acct[2]) = 0
    /\ \A k \in GateKeys, change \in Changes :
          DOMAIN balances \subseteq
              DOMAIN LedgerStep(balances, k.user_id, k.asset, change).balances

\* C19 witness: the map holds a key at zero, lacks another key, and holds a
\* positive amount that sub takes down to a present zero.
C19_Witness ==
    /\ \E k \in DOMAIN balances : balances[k] = 0
    /\ \E acct \in RegisteredAccounts, t \in BalanceType :
          BalanceMapKey(acct[1], t, acct[2]) \notin DOMAIN balances
    /\ \E acct \in RegisteredAccounts, t \in BalanceType, x \in Amounts :
          LET key == BalanceMapKey(acct[1], t, acct[2])
              less == sub(balances, acct[1], t, acct[2], x)
          IN  /\ get(balances, acct[1], t, acct[2]) > 0
              /\ ~less.panic
              /\ key \in DOMAIN less.balances
              /\ less.balances[key] = 0

\* C20: over the borrow events of any call of update_user_balance at most
\* one of balance_manager, history_writer and message_manager is mutably
\* borrowed at a time, no borrow_mut meets a cell already borrowed, a guard
\* is dropped before the next is taken, none is held when the call is over
\* (a panic in the ledger included), and while a sink's method runs a borrow
\* of the ledger succeeds.
C20_OneBorrowAtATime ==
    \A c \in GateCalls \cup UnregisteredCalls :
        LET events == BorrowEvents(StepsOf(balances, cache, c))
        IN  /\ Held(events, Len(events)) = {}
            /\ \A n \in 1..Len(events) :
                  /\ Cardinality(Held(events, n)) <= 1
                  /\ ~BorrowMutPanics(events, n)
                  /\ events[n].op = "borrow_mut" => Held(events, n - 1) = {}
                  /\ events[n].op = "call" => Held(events, n) = {events[n].cell}
                  /\ (events[n].op = "call" /\ events[n].cell # "balance_manager") =>
                        try_borrow(Held(events, n), "balance_manager")

\* C20 witness: a persisted call has just returned, and the same call under a
\* key not yet marked borrows all three cells in turn.
C20_Witness ==
    /\ returned = "true"
    /\ Len(history) = 1
    /\ Len(messages) = 1
    /\ \E c \in GateCalls :
          LET events == BorrowEvents(StepsOf(balances, cache, c))
          IN  /\ c.real
              /\ ~contains_key(cache, c.key)
              /\ {events[n].cell : n \in {m \in 1..Len(events) :
                                             events[m].op = "borrow_mut"}} = Cells

====
